---- MODULE Spec2Model ----
(***************************************************************************)
(* The file catalog and selective-synchronisation engine of rag-gdrive:    *)
(* src/utils/file-catalog.ts (catalog store, change detection) and the     *)
(* generateBotVectorData pass of actions/knowledgebase-embeddings.ts.      *)
(***************************************************************************)
EXTENDS Integers, Sequences, FiniteSets, TLC

(* ---------------------------------------------------------------- bounds *)
MaxTime == 4
MaxUuid == 3
MaxChunkId == 3
MaxChunks == 2
MaxDocCount == 1
MaxCrashStep == 3

(* ------------------------------------------------------------ the domain *)
Names == {"a.txt", "b.md"}
\* fs.readdirSync lists the directory in name order
NameOrder == <<"a.txt", "b.md">>
\* file contents, of different lengths
Contents == {"c1", "c2"}
NoFile == "absent"
\* the content of a file that fs.statSync sees and fs.readFileSync cannot read
Locked == "locked"
\* the content of a file whose download is still being written
Partial == "partial"
DriveIds == {"d1"}
Undefined == "undefined"

VARIABLES
  disk,        \* file-catalog.json: [form, legacy, files, lastUpdated]
  dir,         \* the knowledgebase directory: name -> content or NoFile
  store,       \* ids of the chunks held by the vector store
  uuid,        \* number of uuidv4() values handed out so far
  chunkSeq,    \* number of chunk ids the vector store has handed out so far
  now,         \* the wall clock read by new Date()
  pc,          \* position of generateBotVectorData
  catalog,     \* generateBotVectorData's `catalog` (loaded at its first line)
  changes,     \* what checkForFileChanges returned to generateBotVectorData
  queue,       \* the files of filesToProcess not yet taken by the loop
  cur,         \* the loop's current file: name, fileMetadata, chunks, ids
  storeLog,    \* history: the vector-store calls of the current pass
  outcome,     \* history: name -> how the current pass left that file
  prevClean,   \* history: the last pass ingested every file successfully and
               \* nothing was changed since
  call,        \* history: the last call of the catalog's interface observed:
               \* the world before it, its arguments and what it returned
  downloads    \* the downloadPromises of fetchDataFromDriveAndSaveLocally:
               \* name -> "none", "running", "done" or "rejected"

vars == <<disk, dir, store, uuid, chunkSeq, now, pc, catalog, changes, queue,
          cur, storeLog, outcome, prevClean, call, downloads>>

(* ------------------------------------------------------- pure functions *)
\* path.extname(fileName).substring(1)
ExtName(name) ==
  CASE name = "a.txt" -> "txt"
    [] name = "b.md" -> "md"
    [] OTHER -> ""

getMimeTypeFromExtension(extension) ==
  CASE extension = "pdf" -> "application/pdf"
    [] extension = "txt" -> "text/plain"
    [] extension = "md" -> "text/markdown"
    [] OTHER -> "application/octet-stream"

\* stats.size of a file with the given content
SizeOf(content) ==
  CASE content = "c1" -> 5
    [] content = "c2" -> 7
    [] content = Locked -> 5
    [] content = Partial -> 1
    [] OTHER -> 0

\* sha256 of the content: distinct contents have distinct digests; when the
\* file cannot be read the catch block returns the empty string
calculateFileHash(content) ==
  CASE content = "c1" -> "h1"
    [] content = "c2" -> "h2"
    [] content = Partial -> "hp"
    [] OTHER -> ""

\* Array.prototype.find / findIndex: the first position satisfying P, or 0
FirstIdx(s, P(_)) ==
  LET I == {i \in 1..Len(s) : P(s[i])}
  IN IF I = {} THEN 0 ELSE CHOOSE i \in I : \A j \in I : i <= j

\* { ...rec, ...updates }
Spread(rec, updates) ==
  [f \in DOMAIN rec |-> IF f \in DOMAIN updates THEN updates[f] ELSE rec[f]]

Ids(files) == {files[i].id : i \in 1..Len(files)}

Range(s) == {s[i] : i \in 1..Len(s)}

\* array.splice(array.indexOf(x), 1) when x is present
Without(s, x) ==
  LET i == FirstIdx(s, LAMBDA y : y = x)
  IN IF i = 0 THEN s
     ELSE [j \in 1..(Len(s) - 1) |-> IF j < i THEN s[j] ELSE s[j + 1]]

\* the supported files of the directory, in readdir order
DirFiles(d) == SelectSeq(NameOrder, LAMBDA n : d[n] # NoFile)

(* -------------------------------------------------------- catalog store *)
\* The operators below thread a world w = [disk, uuid, now, readable]
\* through the calls of the code: the persisted file, the uuids used, the
\* clock, and whether fs.readFileSync succeeds during the operation.

EmptyDisk == [form |-> "absent", legacy |-> <<>>, files |-> <<>>, lastUpdated |-> 0]

\* the record written for one entry of a legacy array (loadFileCatalog)
MigratedRecord(oldEntry, id, t) ==
  [id |-> id,
   name |-> oldEntry.filename,
   mimeType |-> getMimeTypeFromExtension(oldEntry.type),
   size |-> oldEntry.size,
   lastModified |-> t,
   sourceLocation |-> "google-drive",
   driveId |-> Undefined,
   contentHash |-> Undefined,
   processingStatus |-> "success",
   errorMessage |-> Undefined,
   processedAt |-> t,
   chunkCount |-> oldEntry.documentCount,
   chunkIds |-> <<>>]

\* the properties of a FileMetadata object
FileMetadataFields ==
  {"id", "name", "mimeType", "size", "lastModified", "sourceLocation",
   "driveId", "contentHash", "processingStatus", "errorMessage", "processedAt",
   "chunkCount", "chunkIds"}

\* the optional properties, which may be undefined
OptionalFields == {"driveId", "contentHash", "errorMessage"}

\* JSON.stringify of one record: a property whose value is undefined is
\* left out of the document
Stringify(rec) ==
  [f \in {g \in DOMAIN rec : g \in OptionalFields => rec[g] # Undefined} |-> rec[f]]

\* JSON.parse of one record's document: a property the document does not
\* have reads as undefined
Parse(doc) ==
  [f \in FileMetadataFields |-> IF f \in DOMAIN doc THEN doc[f] ELSE Undefined]

\* saveFileCatalog(catalog): the world after the write; disk.files is what
\* JSON.parse yields from the text written
saveFileCatalog(w, files) ==
  [w EXCEPT !.disk = [form |-> "object", legacy |-> <<>>,
                      files |-> [i \in 1..Len(files) |-> Parse(Stringify(files[i]))],
                      lastUpdated |-> w.now]]

\* a variant that gives every migrated record the same id
MigrateOneId(legacy, uuid0, t) ==
  [i \in 1..Len(legacy) |-> MigratedRecord(legacy[i], uuid0 + 1, t)]

\* the catalog built from a legacy array, ids taken from uuid + 1 on
Migrate(legacy, uuid0, t) ==
  [i \in 1..Len(legacy) |-> MigratedRecord(legacy[i], uuid0 + i, t)]

\* a variant that returns an empty catalog whatever the file holds
LoadEmpty(w) == [files |-> <<>>, w |-> w]

\* loadFileCatalog(): [files |-> the catalog returned, w |-> the world after]
loadFileCatalog(w) ==
  IF w.disk.form = "absent" THEN [files |-> <<>>, w |-> w]
  ELSE IF ~w.readable \/ w.disk.form = "torn" THEN
    \* readFileSync or JSON.parse throws: the catch returns an empty catalog
    [files |-> <<>>, w |-> w]
  ELSE IF w.disk.form = "legacy" THEN
    [files |-> Migrate(w.disk.legacy, w.uuid, w.now),
     w |-> saveFileCatalog([w EXCEPT !.uuid = w.uuid + Len(w.disk.legacy)],
                           Migrate(w.disk.legacy, w.uuid, w.now))]
  ELSE [files |-> w.disk.files, w |-> w]

\* the record addFileToFileCatalog creates for a file it does not know
NewFileMetadata(fileId, fileName, mimeType, size, sourceLocation, driveId, t) ==
  [id |-> fileId,
   name |-> fileName,
   mimeType |-> mimeType,
   size |-> size,
   lastModified |-> t,
   sourceLocation |-> sourceLocation,
   driveId |-> driveId,
   contentHash |-> Undefined,
   processingStatus |-> "pending",
   errorMessage |-> Undefined,
   processedAt |-> 0,          \* no processedAt yet
   chunkCount |-> 0,
   chunkIds |-> <<>>]

\* a variant that looks the record up by name only
ExistingByName(files, fileName, sourceLocation, driveId) ==
  FirstIdx(files, LAMBDA f : f.name = fileName)

\* the position of the record addFileToFileCatalog takes as "existing", or 0
ExistingFile(files, fileName, sourceLocation, driveId) ==
  LET byDrive ==
        IF driveId # Undefined /\ sourceLocation = "google-drive"
        THEN FirstIdx(files, LAMBDA f : f.driveId = driveId
                                        /\ f.sourceLocation = "google-drive")
        ELSE 0
  IN IF byDrive # 0 THEN byDrive
     ELSE FirstIdx(files, LAMBDA f : f.name = fileName
                                     /\ (driveId # Undefined => f.driveId = driveId))

\* addFileToFileCatalog after its loadFileCatalog() returned l
AddToLoaded(l, fileName, mimeType, size, sourceLocation, driveId, i) ==
  IF i # 0 THEN
    [rec |-> [l.files[i] EXCEPT !.name = fileName,
                                !.size = size,
                                !.lastModified = l.w.now,
                                !.processingStatus = "pending",
                                !.driveId = driveId],
     w |-> saveFileCatalog(l.w,
             [l.files EXCEPT ![i] = [@ EXCEPT !.name = fileName,
                                              !.size = size,
                                              !.lastModified = l.w.now,
                                              !.processingStatus = "pending",
                                              !.driveId = driveId]])]
  ELSE
    [rec |-> NewFileMetadata(l.w.uuid + 1, fileName, mimeType, size,
                             sourceLocation, driveId, l.w.now),
     w |-> saveFileCatalog([l.w EXCEPT !.uuid = l.w.uuid + 1],
             Append(l.files,
                    NewFileMetadata(l.w.uuid + 1, fileName, mimeType, size,
                                    sourceLocation, driveId, l.w.now)))]

\* addFileToFileCatalog(...): [rec |-> the record returned, w |-> world after]
AddExisting(l, fileName, mimeType, size, sourceLocation, driveId) ==
  AddToLoaded(l, fileName, mimeType, size, sourceLocation, driveId,
              ExistingFile(l.files, fileName, sourceLocation, driveId))

addFileToFileCatalog(w, fileName, mimeType, size, sourceLocation, driveId) ==
  AddExisting(loadFileCatalog(w), fileName, mimeType, size, sourceLocation, driveId)

\* a variant that merges the updates into every record, not the one of the id
UpdateEvery(l, i, updates) ==
  IF i = 0 THEN l.w
  ELSE saveFileCatalog(l.w,
         [k \in 1..Len(l.files) |->
            [Spread(l.files[k], updates) EXCEPT !.lastModified = l.w.now]])

\* updateFileMetadata after its loadFileCatalog() returned l
UpdateLoaded(l, i, updates) ==
  IF i = 0 THEN l.w
  ELSE saveFileCatalog(l.w,
         [l.files EXCEPT ![i] =
            [Spread(@, updates) EXCEPT !.lastModified = l.w.now]])

\* a variant that updates the first record whatever the id
UpdateFirst(l, fileId, updates) ==
  UpdateLoaded(l, IF l.files = <<>> THEN 0 ELSE 1, updates)

UpdateById(l, fileId, updates) ==
  UpdateLoaded(l, FirstIdx(l.files, LAMBDA f : f.id = fileId), updates)

\* updateFileMetadata(fileId, updates): the world after the call
updateFileMetadata(w, fileId, updates) ==
  UpdateById(loadFileCatalog(w), fileId, updates)

\* the value null, which is no record
Null == [null |-> TRUE]

\* what updateFileMetadata returns: null when the loaded catalog has no
\* record of the id, else the record as saved (wAfter is the world it left)
UpdateReturn(l, fileId, wAfter) ==
  IF FirstIdx(l.files, LAMBDA f : f.id = fileId) = 0 THEN Null
  ELSE wAfter.disk.files[FirstIdx(l.files, LAMBDA f : f.id = fileId)]

\* a variant that deletes the entry of the loaded object and never saves it
RemoveNotSaved(l, fileId) == l.w

\* removeFileFromCatalog after its loadFileCatalog() returned l
RemoveLoaded(l, fileId) ==
  IF fileId \notin Ids(l.files) THEN l.w
  ELSE saveFileCatalog(l.w, SelectSeq(l.files, LAMBDA f : f.id # fileId))

\* removeFileFromCatalog(fileId): the world after the call
removeFileFromCatalog(w, fileId) == RemoveLoaded(loadFileCatalog(w), fileId)

(* ------------------------------------------------------ change detection *)
\* The body of checkForFileChanges works on s = [w, filesToProcess,
\* filesToSkip, deletedFileIds, newFiles, modified, renamed]: the world and
\* the three result arrays; newFiles, modified and renamed only record which
\* branch each file took. `files` is the catalog loaded at its first line.

\* a variant that does not compare the content hashes
HasChangedNoHash(existingFile, contentHash, size) ==
  \/ existingFile.size # size
  \/ existingFile.processingStatus = "error"

\* existingFile.contentHash !== contentHash || existingFile.size !== stats.size
\*   || existingFile.processingStatus === 'error'
HasChanged(existingFile, contentHash, size) ==
  \/ existingFile.contentHash # contentHash
  \/ existingFile.size # size
  \/ existingFile.processingStatus = "error"

\* the loop body for a file that has a record of its name
KnownFile(s, existingFile, fileName, contentHash, size) ==
  IF HasChanged(existingFile, contentHash, size) THEN
    [s EXCEPT !.deletedFileIds = Without(@, existingFile.id),
              !.w = updateFileMetadata(@, existingFile.id,
                      [size |-> size, contentHash |-> contentHash,
                       processingStatus |-> "pending"]),
              !.filesToProcess = Append(@, fileName),
              !.modified = @ \cup {fileName}]
  ELSE
    [s EXCEPT !.deletedFileIds = Without(@, existingFile.id),
              !.filesToSkip = Append(@, fileName)]

\* the loop body for a file that has none, after addFileToFileCatalog
\* returned a
NewFile(s, a, fileName, contentHash) ==
  [s EXCEPT !.w = updateFileMetadata(a.w, a.rec.id, [contentHash |-> contentHash]),
            !.filesToProcess = Append(@, fileName),
            !.newFiles = @ \cup {fileName}]

FileBody(s, files, i, fileName, contentHash, size, mimeType) ==
  IF i # 0 THEN KnownFile(s, files[i], fileName, contentHash, size)
  ELSE NewFile(s, addFileToFileCatalog(s.w, fileName, mimeType, size,
                                       "manual-upload", Undefined),
               fileName, contentHash)

\* one iteration of the loop over the directory's files
FileStep(s, files, d, fileName) ==
  FileBody(s, files, FirstIdx(files, LAMBDA f : f.name = fileName), fileName,
           calculateFileHash(d[fileName]), SizeOf(d[fileName]),
           getMimeTypeFromExtension(ExtName(fileName)))

RECURSIVE FileLoop(_, _, _, _)
FileLoop(s, files, d, todo) ==
  IF todo = <<>> THEN s
  ELSE FileLoop(FileStep(s, files, d, Head(todo)), files, d, Tail(todo))

\* deletedFileIds.filter(...): the candidates of the rename detection
PotentiallyRenamed(deletedFileIds, files) ==
  SelectSeq(deletedFileIds, LAMBDA id :
    LET i == FirstIdx(files, LAMBDA f : f.id = id)
    IN /\ i # 0
       /\ files[i].sourceLocation = "manual-upload"
       /\ files[i].contentHash \notin {Undefined, ""})

\* files.find(fileName => calculateFileHash(...) === oldFile.contentHash)
FindByHash(names, d, contentHash) ==
  FirstIdx(names, LAMBDA n : calculateFileHash(d[n]) = contentHash)

RenameTarget(oldFile, d) ==
  IF FindByHash(DirFiles(d), d, oldFile.contentHash) = 0 THEN Undefined
  ELSE DirFiles(d)[FindByHash(DirFiles(d), d, oldFile.contentHash)]

\* the loop body once files.find returned newFileName
RenameBody(s, fileId, newFileName) ==
  IF newFileName = Undefined THEN s
  ELSE [s EXCEPT !.w = updateFileMetadata(@, fileId,
                         [name |-> newFileName, processingStatus |-> "pending"]),
                 !.deletedFileIds = Without(@, fileId),
                 !.filesToProcess =
                    IF newFileName \in Range(@) THEN @ ELSE Append(@, newFileName),
                 !.renamed = @ \cup {fileId}]

\* one iteration of the loop over potentiallyRenamedFiles
RenameStep(s, files, d, fileId) ==
  RenameBody(s, fileId,
             RenameTarget(files[FirstIdx(files, LAMBDA f : f.id = fileId)], d))

RECURSIVE RenameLoop(_, _, _, _)
RenameLoop(s, files, d, todo) ==
  IF todo = <<>> THEN s
  ELSE RenameLoop(RenameStep(s, files, d, Head(todo)), files, d, Tail(todo))

\* the first k elements of a sequence (all of it when it is shorter)
Prefix(q, k) == SubSeq(q, 1, IF k < Len(q) THEN k ELSE Len(q))

\* the state of checkForFileChanges after loadFileCatalog() returned l
CheckStart(l) ==
  [w |-> l.w, filesToProcess |-> <<>>, filesToSkip |-> <<>>,
   deletedFileIds |-> [i \in 1..Len(l.files) |-> l.files[i].id],
   newFiles |-> {}, modified |-> {}, renamed |-> {}]

\* the rename detection on the state s1 the first loop left, cut short after
\* `steps` iterations
RenamePhase(s1, files, d, steps) ==
  RenameLoop(s1, files, d,
             Prefix(PotentiallyRenamed(s1.deletedFileIds, files), steps))

\* both loops of checkForFileChanges, cut short after `steps` iterations
CheckLoops(l, d, steps) ==
  RenamePhase(FileLoop(CheckStart(l), l.files, d, Prefix(DirFiles(d), steps)),
              l.files, d, steps - Len(DirFiles(d)))

\* checkForFileChanges up to, not including, its final saveFileCatalog, cut
\* short after `steps` loop iterations (both loops counted)
CheckBody(w, d, steps) == CheckLoops(loadFileCatalog(w), d, steps)

\* the catalog object saved by the last statement of checkForFileChanges:
\* the one loaded by its first statement, which no statement in between
\* assigns to
FinalCatalog(loaded, written) == loaded

FinalSave(s, loaded) ==
  [s EXCEPT !.w = saveFileCatalog(@, FinalCatalog(loaded, s.w.disk.files))]

CheckAll(l, d) ==
  FinalSave(CheckLoops(l, d, Len(NameOrder) + Len(l.files)), l.files)

\* checkForFileChanges(dirPath, filter): the state when it returns
checkForFileChanges(w, d) == CheckAll(loadFileCatalog(w), d)

(* ------------------------------------------------------------ the system *)
World(t) == [disk |-> disk, uuid |-> uuid, now |-> t, readable |-> TRUE]

NoChanges ==
  [filesToProcess |-> <<>>, filesToSkip |-> <<>>, deletedFileIds |-> <<>>,
   newFiles |-> {}, modified |-> {}, renamed |-> {}, rerun |-> FALSE]

NoCur == [name |-> Undefined]

NoOutcome == [n \in Names |-> "none"]

NoCall == [op |-> "none"]

NoDownloads == [n \in Names |-> "none"]

\* a legacy catalog: an array of {filename, type, size, documentCount}
LegacyDisks ==
  {[form |-> "legacy",
    legacy |-> <<[filename |-> "a.txt", type |-> "txt", size |-> SizeOf("c1"),
                  documentCount |-> c]>>,
    files |-> <<>>, lastUpdated |-> 0] : c \in 0..MaxDocCount}

Init ==
  /\ disk \in {EmptyDisk} \cup LegacyDisks
  /\ dir = [n \in Names |-> NoFile]
  /\ store = {}
  /\ uuid = 0
  /\ chunkSeq = 0
  /\ now = 0
  /\ pc = "idle"
  /\ catalog = <<>>
  /\ changes = NoChanges
  /\ queue = <<>>
  /\ cur = NoCur
  /\ storeLog = <<>>
  /\ outcome = NoOutcome
  /\ prevClean = FALSE
  /\ call = NoCall
  /\ downloads = NoDownloads

\* no pass is running: none was started, the last one returned, the last
\* one ended with an exception, or the process died during the last one
Idle == pc \in {"idle", "done", "failed", "crashed"}

\* what every step outside a pass does to the pass's variables
ForgetPass ==
  /\ pc' = "idle"
  /\ catalog' = <<>>
  /\ changes' = NoChanges
  /\ queue' = <<>>
  /\ cur' = NoCur
  /\ storeLog' = <<>>
  /\ outcome' = NoOutcome
  /\ prevClean' = FALSE

Forget ==
  /\ ForgetPass
  /\ call' = NoCall

\* somebody places or overwrites a file in the knowledgebase directory
PutFile(n, c) ==
  /\ Idle
  /\ now < MaxTime
  /\ now' = now + 1
  /\ dir[n] # c
  /\ dir' = [dir EXCEPT ![n] = c]
  /\ Forget
  /\ UNCHANGED <<downloads, disk, store, uuid, chunkSeq>>

\* somebody removes a file from the knowledgebase directory
RemoveFile(n) ==
  /\ Idle
  /\ now < MaxTime
  /\ now' = now + 1
  /\ dir[n] # NoFile
  /\ dir' = [dir EXCEPT ![n] = NoFile]
  /\ Forget
  /\ UNCHANGED <<downloads, disk, store, uuid, chunkSeq>>

\* somebody renames a file of the knowledgebase directory
MoveFile(n, m) ==
  /\ Idle
  /\ now < MaxTime
  /\ now' = now + 1
  /\ dir[n] # NoFile
  /\ dir[m] = NoFile
  /\ dir' = [dir EXCEPT ![n] = NoFile, ![m] = dir[n]]
  /\ Forget
  /\ UNCHANGED <<downloads, disk, store, uuid, chunkSeq>>

\* fetchDataFromDriveAndSaveLocally: one download finishes; the file is on
\* disk and addFileToFileCatalog is called with its Drive id
DriveDownload(n, c, driveId) ==
  /\ Idle
  /\ now < MaxTime
  /\ now' = now + 1
  /\ \E a \in {addFileToFileCatalog(World(now + 1), n,
                  getMimeTypeFromExtension(ExtName(n)), SizeOf(c),
                  "google-drive", driveId)} :
        /\ a.w.uuid <= MaxUuid
        /\ disk' = a.w.disk
        /\ uuid' = a.w.uuid
  /\ dir' = [dir EXCEPT ![n] = c]
  /\ Forget
  /\ UNCHANGED <<downloads, store, chunkSeq>>

\* the pass has no file left: generateBotVectorData returns
Return(out) ==
  /\ pc' = "done"
  /\ queue' = <<>>
  /\ cur' = NoCur
  /\ outcome' = out
  /\ prevClean' = \A n \in Names : dir[n] # NoFile => out[n] = "success"

\* the loop goes on to the next file, or the pass returns
Continue(out) ==
  IF Tail(queue) = <<>> THEN Return(out)
  ELSE /\ pc' = "next"
       /\ queue' = Tail(queue)
       /\ cur' = NoCur
       /\ outcome' = out
       /\ UNCHANGED prevClean

\* generateBotVectorData, from its first line to the return of
\* checkForFileChanges, in the world w0; c is what the step leaves in `call`
GenBegin(w0, c) ==
  /\ now < MaxTime
  /\ now' = now + 1
  /\ \E l \in {loadFileCatalog(w0)} :
     \E r \in {checkForFileChanges(l.w, dir)} :
        /\ r.w.uuid <= MaxUuid
        /\ catalog' = l.files
        /\ disk' = r.w.disk
        /\ uuid' = r.w.uuid
        /\ changes' = [filesToProcess |-> r.filesToProcess,
                       filesToSkip |-> r.filesToSkip,
                       deletedFileIds |-> r.deletedFileIds,
                       newFiles |-> r.newFiles, modified |-> r.modified,
                       renamed |-> r.renamed, rerun |-> prevClean]
  /\ pc' = "deleted"
  /\ queue' = <<>>
  /\ cur' = NoCur
  /\ storeLog' = <<>>
  /\ outcome' = NoOutcome
  /\ call' = c
  /\ UNCHANGED <<downloads, dir, store, chunkSeq, prevClean>>

GenStart ==
  /\ Idle
  /\ GenBegin(World(now + 1), NoCall)

\* the process dies inside checkForFileChanges, after `steps` iterations of
\* its loops (or after the last one, when there are fewer) and before its
\* final save
GenCrash(steps) ==
  /\ Idle
  /\ now < MaxTime
  /\ now' = now + 1
  /\ \E s \in {CheckBody(loadFileCatalog(World(now + 1)).w, dir, steps)} :
        /\ s.w.uuid <= MaxUuid
        /\ disk' = s.w.disk
        /\ uuid' = s.w.uuid
  /\ Forget
  /\ UNCHANGED <<downloads, dir, store, chunkSeq>>

\* a variant that collects no chunk id for the deleted records
ChunkIdsForgotten(files, ids) == <<>>

\* chunkIdsToDelete: the chunkIds of the deleted records, from `catalog`
RECURSIVE ChunkIdsToDelete(_, _)
ChunkIdsToDelete(files, ids) ==
  IF ids = <<>> THEN <<>>
  ELSE LET i == FirstIdx(files, LAMBDA f : f.id = Head(ids))
       IN (IF i # 0 THEN files[i].chunkIds ELSE <<>>)
          \o ChunkIdsToDelete(files, Tail(ids))

RECURSIVE RemoveAll(_, _)
RemoveAll(w, ids) ==
  IF ids = <<>> THEN w
  ELSE RemoveAll(removeFileFromCatalog(w, Head(ids)), Tail(ids))

\* generateBotVectorData: "Handle deleted files", then the early return when
\* no file needs processing
HandleDeleted ==
  /\ pc = "deleted"
  /\ disk' = RemoveAll(World(now), changes.deletedFileIds).disk
  /\ \E ids \in {ChunkIdsToDelete(catalog, changes.deletedFileIds)} :
        /\ store' = store \ Range(ids)
        /\ storeLog' = IF ids = <<>> THEN storeLog
                       ELSE Append(storeLog, [op |-> "delete", file |-> Undefined,
                                              ids |-> ids])
  /\ IF changes.filesToProcess = <<>>
     THEN Return(outcome)
     ELSE /\ pc' = "next"
          /\ queue' = changes.filesToProcess
          /\ UNCHANGED <<cur, outcome, prevClean>>
  /\ UNCHANGED <<downloads, dir, uuid, chunkSeq, now, catalog, changes, call>>

\* the loop takes the next file and looks its record up in `catalog`
NextFile ==
  /\ pc = "next"
  /\ LET fileName == Head(queue)
         i == FirstIdx(catalog, LAMBDA f : f.name = fileName)
     IN IF i = 0
        THEN Continue([outcome EXCEPT ![fileName] = "not found"])
        ELSE /\ cur' = [name |-> fileName, fileMetadata |-> catalog[i],
                        chunks |-> 0, ids |-> <<>>]
             /\ pc' = IF catalog[i].chunkIds # <<>> THEN "purge" ELSE "load"
             /\ UNCHANGED <<queue, outcome, prevClean>>
  /\ UNCHANGED <<downloads, disk, dir, store, uuid, chunkSeq, now, catalog, changes, storeLog,
                 call>>

\* a variant that goes on to the reset without deleting the old chunks
PurgeSkipped ==
  /\ pc = "purge"
  /\ pc' = "reset"
  /\ UNCHANGED <<downloads, disk, dir, store, uuid, chunkSeq, now, catalog, changes, queue,
                 cur, storeLog, outcome, prevClean, call>>

\* store.delete({ ids: fileMetadata.chunkIds })
PurgeDelete ==
  /\ pc = "purge"
  /\ store' = store \ Range(cur.fileMetadata.chunkIds)
  /\ storeLog' = Append(storeLog, [op |-> "delete", file |-> cur.name,
                                  ids |-> cur.fileMetadata.chunkIds])
  /\ pc' = "reset"
  /\ UNCHANGED <<downloads, disk, dir, uuid, chunkSeq, now, catalog, changes, queue, cur,
                 outcome, prevClean, call>>

\* the update that resets chunkCount and chunkIds after the delete
ResetChunks(w, fileId) ==
  updateFileMetadata(w, fileId, [chunkCount |-> 0, chunkIds |-> <<>>])

PurgeReset ==
  /\ pc = "reset"
  /\ disk' = ResetChunks(World(now), cur.fileMetadata.id).disk
  /\ pc' = "load"
  /\ UNCHANGED <<downloads, dir, store, uuid, chunkSeq, now, catalog, changes, queue, cur,
                 storeLog, outcome, prevClean, call>>

\* the update of a file whose loader returned no document
RecordNoContent(w, fileId) ==
  updateFileMetadata(w, fileId,
    [processingStatus |-> "error",
     errorMessage |-> "No content extracted from file",
     processedAt |-> w.now])

\* the catch block: the record is looked up by name in `catalog`
RecordError(w, files, fileName) ==
  LET i == FirstIdx(files, LAMBDA f : f.name = fileName)
  IN IF i = 0 THEN w
     ELSE updateFileMetadata(w, files[i].id,
            [processingStatus |-> "error",
             errorMessage |-> "thrown",
             processedAt |-> w.now])

\* loader.load() and splitDocuments: `res` is "throws", "empty" or "ok",
\* and n the number of chunks of an "ok" load
LoadDocs(res, n) ==
  /\ pc = "load"
  /\ \/ /\ res = "throws" /\ n = 0
        /\ disk' = RecordError(World(now), catalog, cur.name).disk
        /\ Continue([outcome EXCEPT ![cur.name] = "error"])
     \/ /\ res = "empty" /\ n = 0
        /\ disk' = RecordNoContent(World(now), cur.fileMetadata.id).disk
        /\ Continue([outcome EXCEPT ![cur.name] = "empty"])
     \/ /\ res = "ok"
        /\ chunkSeq + n <= MaxChunkId
        /\ cur' = [cur EXCEPT !.chunks = n]
        /\ pc' = "add"
        /\ UNCHANGED <<disk, queue, outcome, prevClean>>
  /\ UNCHANGED <<downloads, dir, store, uuid, chunkSeq, now, catalog, changes, storeLog, call>>

\* store.addDocuments(chunks): one new id per chunk
AddDocs ==
  /\ pc = "add"
  /\ \E ids \in {[i \in 1..cur.chunks |-> chunkSeq + i]} :
        /\ store' = store \cup Range(ids)
        /\ cur' = [cur EXCEPT !.ids = ids]
        /\ storeLog' = Append(storeLog, [op |-> "add", file |-> cur.name,
                                        ids |-> ids])
  /\ chunkSeq' = chunkSeq + cur.chunks
  /\ pc' = "record"
  /\ UNCHANGED <<downloads, disk, dir, uuid, now, catalog, changes, queue, outcome, prevClean,
                 call>>

\* the update after a successful add
RecordIngested(w, fileId, chunks, ids) ==
  updateFileMetadata(w, fileId,
    [processingStatus |-> "success",
     chunkCount |-> chunks,
     chunkIds |-> ids,
     processedAt |-> w.now])

RecordSuccess ==
  /\ pc = "record"
  /\ disk' = RecordIngested(World(now), cur.fileMetadata.id, cur.chunks, cur.ids).disk
  /\ Continue([outcome EXCEPT ![cur.name] = "success"])
  /\ UNCHANGED <<downloads, dir, store, uuid, chunkSeq, now, catalog, changes, storeLog, call>>

Next ==
  \/ \E n \in Names, c \in Contents : PutFile(n, c)
  \/ \E n \in Names : RemoveFile(n)
  \/ \E n \in Names, m \in Names : MoveFile(n, m)
  \/ \E n \in Names, c \in Contents, d \in DriveIds : DriveDownload(n, c, d)
  \/ GenStart
  \/ \E k \in 1..MaxCrashStep : GenCrash(k)
  \/ HandleDeleted
  \/ NextFile
  \/ PurgeDelete
  \/ PurgeReset
  \/ \E res \in {"throws", "empty", "ok"}, n \in 0..MaxChunks : LoadDocs(res, n)
  \/ AddDocs
  \/ RecordSuccess

Spec == Init /\ [][Next]_vars

(* ------------------------------------------------------------ failures *)
\* The passes of Spec together with the failures of the file system and of
\* the vector store.

\* the catalog file after a writeFileSync that did not complete: truncated
\* or partly written, no JSON document
TornDisk == [form |-> "torn", legacy |-> <<>>, files |-> <<>>, lastUpdated |-> 0]

\* a pass started while the catalog file exists and fs.readFileSync fails
\* (the file is readable again once checkForFileChanges has returned)
GenStartUnreadable ==
  /\ Idle
  /\ disk.form \in {"legacy", "object"}
  /\ GenBegin([World(now + 1) EXCEPT !.readable = FALSE],
              [op |-> "unreadable", w |-> World(now + 1)])

\* a Drive download whose addFileToFileCatalog does not complete its
\* fs.writeFileSync (the process is killed, or the write fails and the
\* catch of saveFileCatalog logs it): the file is left as it was or torn
DriveDownloadWriteFails(n, c, left) ==
  /\ Idle
  /\ now < MaxTime
  /\ now' = now + 1
  /\ disk' = IF left = "old" THEN loadFileCatalog(World(now + 1)).w.disk
             ELSE TornDisk
  /\ uuid' = loadFileCatalog(World(now + 1)).w.uuid
  /\ uuid' <= MaxUuid
  /\ dir' = [dir EXCEPT ![n] = c]
  /\ ForgetPass
  /\ call' = [op |-> "write fails", w |-> World(now + 1)]
  /\ UNCHANGED <<downloads, store, chunkSeq>>

\* "Handle deleted files" when store.delete throws: the records are already
\* removed, and the exception leaves generateBotVectorData
HandleDeletedThrows ==
  /\ pc = "deleted"
  /\ ChunkIdsToDelete(catalog, changes.deletedFileIds) # <<>>
  /\ disk' = RemoveAll(World(now), changes.deletedFileIds).disk
  /\ storeLog' = Append(storeLog,
                    [op |-> "delete throws", file |-> Undefined,
                     ids |-> ChunkIdsToDelete(catalog, changes.deletedFileIds)])
  /\ pc' = "failed"
  /\ prevClean' = FALSE
  /\ UNCHANGED <<downloads, dir, store, uuid, chunkSeq, now, catalog, changes, queue, cur,
                 outcome, call>>

\* a variant in which the loop goes on to the add after the failed delete
PurgeThrowsIgnored ==
  /\ pc = "purge"
  /\ storeLog' = Append(storeLog, [op |-> "delete throws", file |-> cur.name,
                                  ids |-> cur.fileMetadata.chunkIds])
  /\ pc' = "reset"
  /\ UNCHANGED <<downloads, disk, dir, store, uuid, chunkSeq, now, catalog, changes, queue,
                 cur, outcome, prevClean, call>>

\* store.delete of a file's old chunks throws: the catch block
PurgeThrows ==
  /\ pc = "purge"
  /\ storeLog' = Append(storeLog, [op |-> "delete throws", file |-> cur.name,
                                  ids |-> cur.fileMetadata.chunkIds])
  /\ disk' = RecordError(World(now), catalog, cur.name).disk
  /\ Continue([outcome EXCEPT ![cur.name] = "error"])
  /\ UNCHANGED <<downloads, dir, store, uuid, chunkSeq, now, catalog, changes, call>>

\* store.addDocuments throws: the catch block
AddThrows ==
  /\ pc = "add"
  /\ storeLog' = Append(storeLog, [op |-> "add throws", file |-> cur.name,
                                  ids |-> <<>>])
  /\ disk' = RecordError(World(now), catalog, cur.name).disk
  /\ Continue([outcome EXCEPT ![cur.name] = "error"])
  /\ UNCHANGED <<downloads, dir, store, uuid, chunkSeq, now, catalog, changes, call>>

\* the passes of Spec with a vector store whose calls can throw
StoreFaultNext ==
  \/ Next
  \/ HandleDeletedThrows
  \/ PurgeThrows
  \/ AddThrows

StoreFaultSpec == Init /\ [][StoreFaultNext]_vars

\* somebody places a file that cannot be read: calculateFileHash fails on it
PutLockedFile(n) ==
  /\ dir[n] # Locked
  /\ PutFile(n, Locked)

\* the positions of generateBotVectorData after checkForFileChanges returned
PassSteps == {"deleted", "next", "purge", "reset", "load", "add", "record"}

\* the process dies between two steps of generateBotVectorData
PassCrash ==
  /\ pc \in PassSteps
  /\ pc' = "crashed"
  /\ prevClean' = FALSE
  /\ UNCHANGED <<downloads, disk, dir, store, uuid, chunkSeq, now, catalog, changes, queue,
                 cur, storeLog, outcome, call>>

\* the process dies inside the fs.writeFileSync of an updateFileMetadata of
\* the ingestion loop: the catalog file is left truncated or partly written
WriteCrash ==
  /\ pc \in {"reset", "load", "record"}
  /\ disk' = TornDisk
  /\ pc' = "crashed"
  /\ prevClean' = FALSE
  /\ UNCHANGED <<downloads, dir, store, uuid, chunkSeq, now, catalog, changes, queue, cur,
                 storeLog, outcome, call>>

FaultNext ==
  \/ Next
  \/ \E n \in Names : PutLockedFile(n)
  \/ PassCrash
  \/ WriteCrash
  \/ GenStartUnreadable
  \/ \E n \in Names, c \in Contents, left \in {"old", "torn"} :
        DriveDownloadWriteFails(n, c, left)
  \/ HandleDeletedThrows
  \/ PurgeThrows
  \/ AddThrows

FaultSpec == Init /\ [][FaultNext]_vars

(* ---------------------------------------------- after an interrupted run *)
\* The passes of Spec, started from what a first checkForFileChanges leaves
\* when the process stops before its final save, with the directory changed
\* since.

\* the contents the directory can have
Dirs == [Names -> Contents \cup {NoFile}]

\* the world a first checkForFileChanges over the directory d0, interrupted
\* after `steps` loop iterations, leaves
Interrupted(d0, steps) ==
  CheckBody([disk |-> EmptyDisk, uuid |-> 0, now |-> 1, readable |-> TRUE],
            d0, steps).w

RestartInit ==
  /\ \E d0 \in Dirs, k \in 1..MaxCrashStep :
        /\ disk = Interrupted(d0, k).disk
        /\ uuid = Interrupted(d0, k).uuid
  /\ dir \in Dirs
  /\ store = {}
  /\ chunkSeq = 0
  /\ now = 1
  /\ pc = "idle"
  /\ catalog = <<>>
  /\ changes = NoChanges
  /\ queue = <<>>
  /\ cur = NoCur
  /\ storeLog = <<>>
  /\ outcome = NoOutcome
  /\ prevClean = FALSE
  /\ call = NoCall
  /\ downloads = NoDownloads

RestartSpec == RestartInit /\ [][Next]_vars

(* ------------------------------------------------------ generateEmbeddings *)
\* generateEmbeddings: the folder is cleared, the files of the Drive folder
\* are downloaded concurrently, and generateBotVectorData runs.

\* file.id of the Drive file of the given name
DriveIdOf(n) == IF n = "a.txt" THEN "d1" ELSE "d2"

\* the knowledgebase folder after fs.rmdirSync and fs.mkdirSync
removeAndCreateFolder == [n \in Names |-> NoFile]

\* the folder d lists at least one supported file
checkManuallyPlacedFiles(d) == DirFiles(d) # <<>>

\* a download promise rejected: Promise.all rejects without waiting for the
\* other promises
SomeRejected == \E n \in Names : downloads[n] = "rejected"

\* generateEmbeddings() is called: removeAndCreateFolder(), then
\* fetchDataFromDriveAndSaveLocally up to `await Promise.all`. S is the set of
\* supported files drive.files.list returned; with S empty the listing threw
\* or found none and the function throws before any download. Each download
\* opens its destination with fs.createWriteStream when it is created.
generateEmbeddings(S) ==
  /\ Idle
  /\ \A n \in Names : downloads[n] # "running"
  /\ now < MaxTime
  /\ now' = now + 1
  /\ call' = [op |-> "generateEmbeddings", dir |-> dir, fetch |-> "running",
              ret |-> "none"]
  /\ IF S = {}
     THEN /\ pc' = "fetch threw"
          /\ dir' = removeAndCreateFolder
          /\ UNCHANGED <<disk, uuid>>
     ELSE /\ pc' = "fetch"
          /\ dir' = [n \in Names |-> IF n \in S THEN Partial
                                     ELSE removeAndCreateFolder[n]]
          /\ disk' = loadFileCatalog(World(now + 1)).w.disk
          /\ uuid' = loadFileCatalog(World(now + 1)).w.uuid
  /\ downloads' = [n \in Names |-> IF n \in S THEN "running" ELSE "none"]
  /\ catalog' = <<>>
  /\ changes' = NoChanges
  /\ queue' = <<>>
  /\ cur' = NoCur
  /\ storeLog' = <<>>
  /\ outcome' = NoOutcome
  /\ prevClean' = FALSE
  /\ UNCHANGED <<store, chunkSeq>>

\* destStream's "finish" of the download of n: the file is written, and
\* addFileToFileCatalog is called before resolve()
DownloadFinish(n, c) ==
  /\ downloads[n] = "running"
  /\ \E a \in {addFileToFileCatalog(World(now), n,
                  getMimeTypeFromExtension(ExtName(n)), SizeOf(c),
                  "google-drive", DriveIdOf(n))} :
        /\ a.w.uuid <= MaxUuid
        /\ disk' = a.w.disk
        /\ uuid' = a.w.uuid
  /\ dir' = [dir EXCEPT ![n] = c]
  /\ downloads' = [downloads EXCEPT ![n] = "done"]
  /\ UNCHANGED <<store, chunkSeq, now, pc, catalog, changes, queue, cur, storeLog,
                 outcome, prevClean, call>>

\* the download of n fails: reject(...)
DownloadReject(n) ==
  /\ downloads[n] = "running"
  /\ downloads' = [downloads EXCEPT ![n] = "rejected"]
  /\ UNCHANGED <<disk, dir, store, uuid, chunkSeq, now, pc, catalog, changes,
                 queue, cur, storeLog, outcome, prevClean, call>>

\* Promise.all resolved: every download finished; generateEmbeddings goes on
\* to generateBotVectorData
FetchResolves ==
  /\ pc = "fetch"
  /\ \A n \in Names : downloads[n] \in {"none", "done"}
  /\ GenBegin(World(now + 1), [call EXCEPT !.fetch = "ok"])

\* fetchDataFromDriveAndSaveLocally threw
FetchThrew ==
  \/ pc = "fetch threw"
  \/ pc = "fetch" /\ SomeRejected

\* the catch of generateEmbeddings finds files in the folder and goes on to
\* generateBotVectorData
FallbackProceeds ==
  /\ FetchThrew
  /\ checkManuallyPlacedFiles(dir)
  /\ GenBegin(World(now + 1), [call EXCEPT !.fetch = "failed"])

\* the catch of generateEmbeddings finds no file and throws
FallbackFails ==
  /\ FetchThrew
  /\ ~checkManuallyPlacedFiles(dir)
  /\ pc' = "failed"
  /\ call' = [call EXCEPT !.fetch = "failed",
                          !.ret = "No supported files available"]
  /\ UNCHANGED <<disk, dir, store, uuid, chunkSeq, now, catalog, changes, queue,
                 cur, storeLog, outcome, prevClean, downloads>>

EmbedNext ==
  \/ \E n \in Names, c \in Contents : PutFile(n, c)
  \/ \E S \in SUBSET Names : generateEmbeddings(S)
  \/ \E n \in Names, c \in Contents : DownloadFinish(n, c)
  \/ \E n \in Names : DownloadReject(n)
  \/ FetchResolves
  \/ FallbackProceeds
  \/ FallbackFails
  \/ HandleDeleted
  \/ NextFile
  \/ PurgeDelete
  \/ PurgeReset
  \/ \E res \in {"throws", "empty", "ok"}, n \in 0..MaxChunks : LoadDocs(res, n)
  \/ AddDocs
  \/ RecordSuccess

EmbedSpec == Init /\ [][EmbedNext]_vars

(* ------------------------------------------- the catalog's interface alone *)
\* The exported functions of file-catalog.ts called by an arbitrary client,
\* one call per step, on a catalog file that is absent or a legacy array.

\* the number of calls of one behaviour
MaxCalls == 2
\* the longest legacy array
MaxLegacy == 2

\* the legacy arrays of up to MaxLegacy entries
LegacyArrays ==
  UNION {[1..k -> {[filename |-> n, type |-> ExtName(n), size |-> SizeOf("c1"),
                    documentCount |-> MaxDocCount] : n \in Names}]
           : k \in 0..MaxLegacy}

\* the callers' two ways of calling addFileToFileCatalog: checkForFileChanges
\* (manual-upload, no driveId) and the Drive download (google-drive, file id)
AddShapes ==
  {<<"manual-upload", Undefined>>} \cup {<<"google-drive", d>> : d \in DriveIds}

\* the updates passed to updateFileMetadata
UpdateShapes ==
  {[name |-> "b.md", processingStatus |-> "pending"],
   [chunkCount |-> 0, chunkIds |-> <<>>],
   [size |-> SizeOf("c2"), contentHash |-> calculateFileHash("c2"),
    processingStatus |-> "pending"],
   [processingStatus |-> "error", errorMessage |-> "thrown", lastModified |-> 0]}

ApiInit ==
  /\ disk \in {EmptyDisk}
             \cup {[form |-> "legacy", legacy |-> a, files |-> <<>>, lastUpdated |-> 0]
                     : a \in LegacyArrays}
  /\ dir = [n \in Names |-> NoFile]
  /\ store = {}
  /\ uuid = 0
  /\ chunkSeq = 0
  /\ now = 0
  /\ pc = "idle"
  /\ catalog = <<>>
  /\ changes = NoChanges
  /\ queue = <<>>
  /\ cur = NoCur
  /\ storeLog = <<>>
  /\ outcome = NoOutcome
  /\ prevClean = FALSE
  /\ call = NoCall
  /\ downloads = NoDownloads

\* one call: the clock advances and no pass is running
ApiTick ==
  /\ now < MaxCalls
  /\ now' = now + 1
  /\ UNCHANGED <<downloads, dir, store, chunkSeq, pc, catalog, changes, queue, cur, storeLog,
                 outcome, prevClean>>

ApiAdd(n, c, sourceLocation, driveId) ==
  /\ ApiTick
  /\ \E a \in {addFileToFileCatalog(World(now + 1), n,
                  getMimeTypeFromExtension(ExtName(n)), SizeOf(c),
                  sourceLocation, driveId)} :
        /\ a.w.uuid <= MaxUuid
        /\ disk' = a.w.disk
        /\ uuid' = a.w.uuid
        /\ call' = [op |-> "add", w |-> World(now + 1), fileName |-> n,
                    size |-> SizeOf(c), sourceLocation |-> sourceLocation,
                    driveId |-> driveId, ret |-> a.rec]

ApiUpdate(fileId, updates) ==
  /\ ApiTick
  /\ \E l \in {loadFileCatalog(World(now + 1))} :
     \E a \in {UpdateById(l, fileId, updates)} :
        /\ a.uuid <= MaxUuid
        /\ disk' = a.disk
        /\ uuid' = a.uuid
        /\ call' = [op |-> "update", w |-> World(now + 1), fileId |-> fileId,
                    updates |-> updates, ret |-> UpdateReturn(l, fileId, a)]

ApiRemove(fileId) ==
  /\ ApiTick
  /\ \E a \in {removeFileFromCatalog(World(now + 1), fileId)} :
        /\ a.uuid <= MaxUuid
        /\ disk' = a.disk
        /\ uuid' = a.uuid
        /\ call' = [op |-> "remove", w |-> World(now + 1), fileId |-> fileId]

ApiLoad ==
  /\ ApiTick
  /\ \E l \in {loadFileCatalog(World(now + 1))} :
        /\ l.w.uuid <= MaxUuid
        /\ disk' = l.w.disk
        /\ uuid' = l.w.uuid
        /\ call' = [op |-> "load", w |-> World(now + 1), ret |-> l.files]

\* saveFileCatalog(loadFileCatalog())
ApiSaveLoaded ==
  /\ ApiTick
  /\ \E l \in {loadFileCatalog(World(now + 1))} :
     \E a \in {saveFileCatalog(l.w, l.files)} :
        /\ a.uuid <= MaxUuid
        /\ disk' = a.disk
        /\ uuid' = a.uuid
        /\ call' = [op |-> "save(load)", w |-> World(now + 1), ret |-> l.files]

ApiNext ==
  \/ \E n \in Names, c \in Contents, sh \in AddShapes : ApiAdd(n, c, sh[1], sh[2])
  \/ \E fileId \in 1..MaxUuid, updates \in UpdateShapes : ApiUpdate(fileId, updates)
  \/ \E fileId \in 1..MaxUuid : ApiRemove(fileId)
  \/ ApiLoad
  \/ ApiSaveLoaded

ApiSpec == ApiInit /\ [][ApiNext]_vars

(* ---------------------------------------------------------------- claims *)
Present == {n \in Names : dir[n] # NoFile}

\* the record of `files` with the given id (the id is in Ids(files))
ById(files, id) == files[FirstIdx(files, LAMBDA f : f.id = id)]

Named(files, n) == {i \in 1..Len(files) : files[i].name = n}

\* generateBotVectorData is past the return of checkForFileChanges
InPass == pc \notin {"idle"}

\* C1: when the previous pass ingested every file successfully and nothing
\* was changed since, checkForFileChanges puts no file in filesToProcess and
\* every file in filesToSkip, and the pass leaves every record as it was.
C1_SecondRunIsNoOp ==
  (InPass /\ changes.rerun) =>
     /\ changes.filesToProcess = <<>>
     /\ Range(changes.filesToSkip) = Present
     /\ (pc = "done" => disk.files = catalog)

\* C2: when checkForFileChanges has returned, the persisted catalog holds a
\* pending record with the computed hash for every file it classified NEW,
\* and the observed size and hash and status pending in the record of every
\* file it classified MODIFIED.
C2_DetectionsPersisted ==
  pc = "deleted" =>
     /\ \A n \in changes.newFiles :
          \E i \in Named(disk.files, n) :
             /\ disk.files[i].processingStatus = "pending"
             /\ disk.files[i].contentHash = calculateFileHash(dir[n])
     /\ \A n \in changes.modified :
          \E i \in Named(disk.files, n) :
             /\ disk.files[i].processingStatus = "pending"
             /\ disk.files[i].contentHash = calculateFileHash(dir[n])
             /\ disk.files[i].size = SizeOf(dir[n])

\* C3: a pass that starts with an empty catalog and a directory of one file,
\* and in which nothing fails, ends with exactly one record, for that file,
\* with status success, chunkIds the ids the store returned and chunkCount
\* their number.
C3_NewFileIngested ==
  (pc = "done" /\ catalog = <<>> /\ Cardinality(Present) = 1
     /\ \A n \in Present : outcome[n] \notin {"error", "empty"}) =>
       /\ Len(disk.files) = 1
       /\ disk.files[1].name \in Present
       /\ disk.files[1].processingStatus = "success"
       /\ disk.files[1].chunkCount = Len(disk.files[1].chunkIds)
       /\ \E k \in 1..Len(storeLog) :
            /\ storeLog[k].op = "add"
            /\ storeLog[k].ids = disk.files[1].chunkIds

\* C4: every record of the persisted catalog has as many chunkIds as its
\* chunkCount says.
C4_ChunkCountMatches ==
  \A i \in 1..Len(disk.files) :
     Len(disk.files[i].chunkIds) = disk.files[i].chunkCount

\* all chunk ids the persisted catalog lists
CatalogChunkIds == UNION {Range(disk.files[i].chunkIds) : i \in 1..Len(disk.files)}

\* C5: no chunk id is listed by two records of the persisted catalog (the
\* store hands out every id once).
C5_NoSharedChunkIds ==
  \A i, j \in 1..Len(disk.files) :
     i # j => Range(disk.files[i].chunkIds) \cap Range(disk.files[j].chunkIds) = {}

C5_Witness ==
  \E i, j \in 1..Len(disk.files) :
     i # j /\ disk.files[i].chunkIds # <<>> /\ disk.files[j].chunkIds # <<>>

Unchanged(rec, n) ==
  /\ rec.contentHash = calculateFileHash(dir[n])
  /\ rec.size = SizeOf(dir[n])
  /\ rec.processingStatus # "error"

\* C7: a file with a record of its name is in filesToSkip, its record
\* untouched, exactly when the stored hash and size equal the observed ones
\* and the status is not error; otherwise it is in filesToProcess.
C7_Classification ==
  pc = "deleted" =>
    \A n \in Present :
       Named(catalog, n) # {} =>
         LET rec == catalog[FirstIdx(catalog, LAMBDA f : f.name = n)]
         IN /\ n \in Range(changes.filesToSkip) <=> Unchanged(rec, n)
            /\ ~Unchanged(rec, n) => n \in Range(changes.filesToProcess)
            /\ Unchanged(rec, n) =>
                 /\ rec.id \in Ids(disk.files)
                 /\ ById(disk.files, rec.id) = rec

C7_Witness ==
  /\ pc = "deleted"
  /\ changes.filesToSkip # <<>>
  /\ changes.modified # {}

\* a record the rename detection matches to a file of the directory
RenameMatched(rec) ==
  /\ rec.sourceLocation = "manual-upload"
  /\ rec.contentHash \notin {Undefined, ""}
  /\ \E n \in Present : calculateFileHash(dir[n]) = rec.contentHash

\* the ids passed to store.delete for the deleted records of this pass
PurgedForDeleted ==
  UNION {Range(storeLog[k].ids) :
           k \in {j \in 1..Len(storeLog) :
                    storeLog[j].op = "delete" /\ storeLog[j].file = Undefined}}

\* C8: once the pass has handled the deleted files, every record whose name
\* is absent from the directory and that is no rename has its id in
\* deletedFileIds, its chunkIds passed to the store's delete, and is gone
\* from the persisted catalog; over an empty directory filesToProcess is
\* empty, deletedFileIds is every id and the catalog ends empty.
C8_DeletedPurged ==
  pc \notin {"idle", "deleted"} =>
    /\ \A i \in 1..Len(catalog) :
         (dir[catalog[i].name] = NoFile /\ ~RenameMatched(catalog[i])) =>
            /\ catalog[i].id \in Range(changes.deletedFileIds)
            /\ Range(catalog[i].chunkIds) \subseteq PurgedForDeleted
            /\ catalog[i].id \notin Ids(disk.files)
    /\ Present = {} =>
         /\ changes.filesToProcess = <<>>
         /\ Range(changes.deletedFileIds) = Ids(catalog)
         /\ disk.files = <<>>

C8_Witness ==
  /\ pc = "done"
  /\ Present = {}
  /\ PurgedForDeleted # {}

\* the vector-store calls of this pass made for file n, in order
CallsFor(n) == SelectSeq(storeLog, LAMBDA c : c.file = n)

\* the record the pass works on for file n is a successfully ingested one
\* whose stored hash differs from the hash of the file
ChangedSinceIngestion(n) ==
  /\ n \in Present
  /\ Named(catalog, n) # {}
  /\ LET rec == catalog[FirstIdx(catalog, LAMBDA f : f.name = n)]
     IN /\ rec.processingStatus = "success"
        /\ rec.chunkIds # <<>>
        /\ rec.contentHash # calculateFileHash(dir[n])

\* C9: a successfully ingested file whose content changed is in
\* filesToProcess; the pass deletes exactly its old chunkIds from the store
\* and, after a successful re-ingestion, its record lists exactly the ids
\* the store returned, none of the old ones, with chunkCount their number.
C9_ModifiedReingested ==
  \A n \in Names :
    (InPass /\ ChangedSinceIngestion(n)) =>
       LET old == catalog[FirstIdx(catalog, LAMBDA f : f.name = n)]
       IN /\ n \in Range(changes.filesToProcess)
          /\ (pc = "done" /\ outcome[n] = "success") =>
               /\ Len(CallsFor(n)) = 2
               /\ CallsFor(n)[1] = [op |-> "delete", file |-> n, ids |-> old.chunkIds]
               /\ CallsFor(n)[2].op = "add"
               /\ old.id \in Ids(disk.files)
               /\ ById(disk.files, old.id).chunkIds = CallsFor(n)[2].ids
               /\ ById(disk.files, old.id).chunkCount = Len(CallsFor(n)[2].ids)
               /\ Range(ById(disk.files, old.id).chunkIds) \cap Range(old.chunkIds) = {}

C9_Witness ==
  \E n \in Names :
     /\ pc = "done"
     /\ ChangedSinceIngestion(n)
     /\ outcome[n] = "success"
     /\ catalog[FirstIdx(catalog, LAMBDA f : f.name = n)].size # SizeOf(dir[n])
     /\ ById(disk.files, catalog[FirstIdx(catalog, LAMBDA f : f.name = n)].id).chunkIds # <<>>

\* C10: when checkForFileChanges has returned, a manual-upload record with a
\* contentHash whose name is absent from the directory, while a file of
\* another name (a name no record has) has that hash, is kept under its id as the only record of
\* the new name, with status pending; its id is not in deletedFileIds and
\* the new name is in filesToProcess.
C10_RenameKeepsRecord ==
  pc = "deleted" =>
    \A i \in 1..Len(catalog) :
      (/\ dir[catalog[i].name] = NoFile
       /\ RenameMatched(catalog[i])
       /\ Named(catalog, RenameTarget(catalog[i], dir)) = {}) =>
         LET n == RenameTarget(catalog[i], dir)
         IN /\ Cardinality(Named(disk.files, n)) = 1
            /\ \A k \in Named(disk.files, n) :
                 /\ disk.files[k].id = catalog[i].id
                 /\ disk.files[k].processingStatus = "pending"
            /\ catalog[i].id \notin Range(changes.deletedFileIds)
            /\ n \in Range(changes.filesToProcess)

\* the record generateBotVectorData works on for file n
Worked(n) == catalog[FirstIdx(catalog, LAMBDA f : f.name = n)]

\* C20: when the loader returned no document for a file, its record has
\* status error, the no-content message and processedAt set, the pass made
\* no store.addDocuments call for it, and chunkCount is what it was before
\* this ingestion attempt.
C20_NoContentKeepsChunkCount ==
  \A n \in Names :
    (InPass /\ outcome[n] = "empty") =>
       /\ Worked(n).id \in Ids(disk.files)
       /\ ById(disk.files, Worked(n).id).processingStatus = "error"
       /\ ById(disk.files, Worked(n).id).errorMessage = "No content extracted from file"
       /\ ById(disk.files, Worked(n).id).processedAt = now
       /\ \A k \in 1..Len(CallsFor(n)) : CallsFor(n)[k].op # "add"
       /\ ById(disk.files, Worked(n).id).chunkCount = Worked(n).chunkCount

(* ---------------------------------------- claims on the catalog's interface *)
\* the catalog the loadFileCatalog() of the observed call returned
Loaded == loadFileCatalog(call.w).files

\* the world the loadFileCatalog() of the observed call left
AfterLoad == loadFileCatalog(call.w).w

\* record f is a google-drive record of the call's driveId under another name
SameDriveOtherName(f) ==
  /\ f.sourceLocation = "google-drive"
  /\ f.driveId = call.driveId
  /\ f.name # call.fileName

\* C11: addFileToFileCatalog for a google-drive file whose driveId is that of
\* an existing google-drive record of another name updates that record in
\* place: same id, the new name, status pending, and as many records as
\* before.
C11_DriveRenameInPlace ==
  (call.op = "add" /\ call.sourceLocation = "google-drive"
     /\ call.driveId # Undefined) =>
    \A i \in 1..Len(Loaded) :
      SameDriveOtherName(Loaded[i]) =>
        /\ Len(disk.files) = Len(Loaded)
        /\ disk.files[i].id = Loaded[i].id
        /\ disk.files[i].name = call.fileName
        /\ disk.files[i].processingStatus = "pending"
        /\ call.ret = disk.files[i]

C11_Witness ==
  /\ call.op = "add"
  /\ call.sourceLocation = "google-drive"
  /\ call.driveId # Undefined
  /\ Len(Loaded) >= 2
  /\ \E i \in 1..Len(Loaded) : SameDriveOtherName(Loaded[i])

\* the call has a driveId no record has, and a name some record has
NewDriveIdKnownName ==
  /\ call.op = "add"
  /\ call.driveId # Undefined
  /\ \A i \in 1..Len(Loaded) : Loaded[i].driveId # call.driveId
  /\ Named(Loaded, call.fileName) # {}

\* C12: addFileToFileCatalog with a driveId no record has and the name of an
\* existing record updates that record (same id, the driveId set, status
\* pending) and creates no second record of the name.
C12_NameLookupAfterDriveId ==
  NewDriveIdKnownName =>
    LET i == FirstIdx(Loaded, LAMBDA f : f.name = call.fileName)
    IN /\ Len(disk.files) = Len(Loaded)
       /\ disk.files[i].id = Loaded[i].id
       /\ disk.files[i].driveId = call.driveId
       /\ disk.files[i].processingStatus = "pending"
       /\ Cardinality(Named(disk.files, call.fileName))
            = Cardinality(Named(Loaded, call.fileName))

C16_LegacyMigration ==
  (call.op = "load" /\ call.w.disk.form = "legacy") =>
     /\ Len(call.ret) = Len(call.w.disk.legacy)
     /\ \A i, j \in 1..Len(call.ret) : i # j => call.ret[i].id # call.ret[j].id
     /\ \A i \in 1..Len(call.ret) :
          /\ call.ret[i].processingStatus = "success"
          /\ call.ret[i].name = call.w.disk.legacy[i].filename
     /\ disk.form = "object"
     /\ disk.files = call.ret
     /\ loadFileCatalog(World(now)).files = call.ret
     /\ loadFileCatalog(World(now)).w.disk = disk
     /\ loadFileCatalog(World(now)).w.uuid = uuid

C16_Witness ==
  /\ call.op = "load"
  /\ call.w.disk.form = "legacy"
  /\ Len(call.w.disk.legacy) = MaxLegacy
  /\ call.w.disk.legacy[1].filename = call.w.disk.legacy[2].filename

C14_UnreadableCatalogAborts ==
  call.op = "unreadable" =>
     /\ pc = "failed"
     /\ disk = call.w.disk

\* C15: the catalog file is never a partial document, and a save that fails
\* leaves every record the catalog had.
C15_SaveIsAtomic ==
  /\ disk.form # "torn"
  /\ call.op = "write fails" =>
       \A i \in 1..Len(Loaded) : Loaded[i].id \in Ids(disk.files)

\* C18: a file for which loading, splitting or a vector-store call threw has
\* status error, the error's message and processedAt in its record; the
\* pass does not end with an exception, and when it has returned every file
\* of filesToProcess has reached its own success or error outcome.
C18_FailureIsolated ==
  \A n \in Names :
    (InPass /\ outcome[n] = "error") =>
       /\ Worked(n).id \in Ids(disk.files)
       /\ ById(disk.files, Worked(n).id).processingStatus = "error"
       /\ ById(disk.files, Worked(n).id).errorMessage = "thrown"
       /\ ById(disk.files, Worked(n).id).processedAt = now
       /\ pc # "failed"
       /\ pc = "done" =>
            \A m \in Range(changes.filesToProcess) :
               outcome[m] \in {"success", "error", "empty"}

\* the pass made a vector-store call that threw
StoreThrew ==
  \E k \in 1..Len(storeLog) : storeLog[k].op \in {"delete throws", "add throws"}

\* C19: a pass in which a vector-store call threw does not end with an
\* exception, and when it has returned the loop has taken every file of
\* filesToProcess.
C19_StoreFailureContained ==
  (InPass /\ StoreThrew) =>
     /\ pc # "failed"
     /\ pc = "done" =>
          \A m \in Range(changes.filesToProcess) : outcome[m] # "none"

(* ------------------------------------------- claims on the records' state *)
\* C21: a persisted record has an errorMessage only while its
\* processingStatus is error; a record detected again as pending or ingested
\* again with success has none.
C21_ErrorMessageOnlyOnError ==
  \A i \in 1..Len(disk.files) :
    disk.files[i].errorMessage # Undefined =>
       disk.files[i].processingStatus = "error"

\* C28: no two persisted records have the same name.
C28_NamesUnique ==
  \A i, j \in 1..Len(disk.files) :
    disk.files[i].name = disk.files[j].name => i = j

\* C30: when a pass has returned, no record of a file present in the
\* directory is pending: each one has status success or error.
C30_NoPendingAfterPass ==
  pc = "done" =>
     \A i \in 1..Len(disk.files) :
        disk.files[i].name \in Present =>
           disk.files[i].processingStatus \in {"success", "error"}

(* --------------------------------------- claims on crashes and store order *)
\* C22: whenever no pass is executing, also when the process died between
\* two steps of a file's ingestion or a vector-store delete failed, every
\* chunk id listed in a persisted record's chunkIds is in the vector store.
C22_NoDanglingChunkIds == Idle => CatalogChunkIds \subseteq store

\* the ids the vector store returned to this pass for file n
AddedIds(n) ==
  LET adds == SelectSeq(CallsFor(n), LAMBDA c : c.op = "add")
  IN IF adds = <<>> THEN <<>> ELSE adds[Len(adds)].ids

\* the persisted record of the file n the pass worked on holds the outcome
\* the pass reached for it
OutcomePersisted(n) ==
  /\ Worked(n).id \in Ids(disk.files)
  /\ outcome[n] = "success" =>
       /\ ById(disk.files, Worked(n).id).processingStatus = "success"
       /\ ById(disk.files, Worked(n).id).chunkIds = AddedIds(n)
       /\ ById(disk.files, Worked(n).id).chunkCount = Len(AddedIds(n))
  /\ outcome[n] \in {"error", "empty"} =>
       ById(disk.files, Worked(n).id).processingStatus = "error"

\* C24: when the process has died during the ingestion loop, the persisted
\* catalog holds the success or error outcome (status, chunkIds, chunkCount)
\* of every file whose ingestion completed before the crash.
C24_CrashKeepsOutcomes ==
  pc = "crashed" =>
     \A n \in Names :
        outcome[n] \in {"success", "error", "empty"} => OutcomePersisted(n)

\* C25: within the ingestion of a file whose record has chunkIds, the
\* vector-store add is issued only after the delete of the old ids has
\* completed, and never after that delete failed.
C25_DeleteBeforeAdd ==
  \A k \in 1..Len(storeLog) :
    (/\ storeLog[k].op \in {"add", "add throws"}
     /\ Worked(storeLog[k].file).chunkIds # <<>>) =>
       /\ \E j \in 1..(k - 1) :
             storeLog[j] = [op |-> "delete", file |-> storeLog[k].file,
                            ids |-> Worked(storeLog[k].file).chunkIds]
       /\ \A j \in 1..Len(storeLog) :
             ~(/\ storeLog[j].op = "delete throws"
               /\ storeLog[j].file = storeLog[k].file)

C25_Witness ==
  \E n \in Names :
     /\ Len(CallsFor(n)) = 2
     /\ CallsFor(n)[1].op = "delete"
     /\ CallsFor(n)[1].ids # <<>>
     /\ CallsFor(n)[2].op = "add"
     /\ CallsFor(n)[2].ids # <<>>

\* C23: when checkForFileChanges has returned, a file whose content hash
\* could not be computed is in filesToProcess and not in filesToSkip,
\* whatever its record holds, and every other file of the directory is in
\* one of the two lists.
C23_HashFailureReprocessed ==
  pc = "deleted" =>
     \A n \in Present :
        /\ dir[n] = Locked =>
             /\ n \in Range(changes.filesToProcess)
             /\ n \notin Range(changes.filesToSkip)
        /\ n \in Range(changes.filesToProcess) \cup Range(changes.filesToSkip)

(* ------------------------------------------------ claims on the result lists *)
\* the number of times n appears in the list q
Occurrences(q, n) == Cardinality({i \in 1..Len(q) : q[i] = n})

\* C27: when checkForFileChanges has returned, every file of the directory
\* appears exactly once in filesToProcess and filesToSkip taken together,
\* and no other name appears in them.
C27_ResultPartitions ==
  pc = "deleted" =>
     \A n \in Names :
        Occurrences(changes.filesToProcess, n) + Occurrences(changes.filesToSkip, n)
          = IF n \in Present THEN 1 ELSE 0

(* ------------------------------------------- claims on generateEmbeddings *)
\* C26: when the fetch from Google Drive failed and the knowledgebase folder
\* held supported files when generateEmbeddings was called, the run does not
\* fail with 'No supported files available': it goes on to
\* generateBotVectorData.
C26_ManualFilesFallback ==
  (/\ call.op = "generateEmbeddings"
   /\ call.fetch = "failed"
   /\ checkManuallyPlacedFiles(call.dir)) =>
      /\ call.ret # "No supported files available"
      /\ pc \in PassSteps \cup {"done"}

\* C29: while generateBotVectorData runs under generateEmbeddings, no
\* download started by fetchDataFromDriveAndSaveLocally is still running.
C29_NoDownloadDuringPass ==
  pc \in PassSteps => \A n \in Names : downloads[n] # "running"

====
